---- MODULE Spec2Model ----
(***************************************************************************)
(* Model of the line correlation engine of NRFBTShell (src/src/index.ts):  *)
(* the data listeners of the serial port, attachToMessages,                *)
(* waitForMessage, collectMessagesBetween and cleanMessages, and of the    *)
(* functions that parse what was collected: readCharacteristic,            *)
(* writeCharacteristic and discoverCharacteristicsForService.              *)
(*                                                                         *)
(* Text is a sequence of characters, a character is a one-character        *)
(* string; "ESC" names the byte 0x1B and "CSI" the byte 0x9B.  A pattern   *)
(* is a literal that is searched anywhere in the text, as the RegExp built *)
(* by waitForMessage from a string is.  "APOSTROPHE" and "BACKTICK" name  *)
(* the bytes 0x27 and 0x60.                                                *)
(***************************************************************************)
EXTENDS Integers, Sequences, FiniteSets, TLC

(* ------------------------------ bounds --------------------------------- *)
\* number of attachToMessages subscriptions (waits included) of one run
MaxSubs == 2
\* number of collectMessagesBetween collectors of one run
MaxCols == 1
\* number of calls of the cancel functions from outside a dispatch, in total
MaxCancelCalls == 2
\* number of listeners registered after the first byte was delivered
MaxLate == 1
\* number of operations of the shell called in one run
MaxOps == 2

\* the subscriptions the callers create, and with them the two more that
\* the callbacks and continuations of one operation create
Callers == 1..MaxSubs
Subs == 1..(MaxSubs + 2)
Cols == (MaxSubs + 3)..(MaxSubs + 2 + MaxCols)

(* ------------------------------- text ---------------------------------- *)
Range(f) == {f[i] : i \in DOMAIN f}
Last(q) == q[Len(q)]
Min(S) == CHOOSE x \in S : \A y \in S : x <= y
NL == "\n"

\* text.includes(c)
Includes(t, c) == \E i \in 1..Len(t) : t[i] = c

\* text.match(pattern) for a pattern without flags: a match anywhere
Matches(p, t) ==
    \E i \in 1..(Len(t) - Len(p) + 1) : SubSeq(t, i, i + Len(p) - 1) = p

\* the character classes of /(\x9B|\x1B\[)[0-?]*[ -\/]*[@-~]/
ParamBytes ==
    {"0", "1", "2", "3", "4", "5", "6", "7", "8", "9", ":", ";", "<", "=", ">", "?"}
IntermediateBytes ==
    {" ", "!", "\"", "#", "$", "%", "&", "APOSTROPHE", "(", ")", "*", "+", ",", "-", ".", "/"}
FinalBytes ==
    {"@", "A", "B", "C", "D", "E", "F", "G", "H", "I", "J", "K", "L", "M", "N",
     "O", "P", "Q", "R", "S", "T", "U", "V", "W", "X", "Y", "Z", "[", "\\", "]",
     "^", "_", "BACKTICK", "a", "b", "c", "d", "e", "f", "g", "h", "i", "j", "k", "l",
     "m", "n", "o", "p", "q", "r", "s", "t", "u", "v", "w", "x", "y", "z", "{",
     "|", "}", "~"}

\* the literal of /uart:~\$ /
PromptToken == <<"u", "a", "r", "t", ":", "~", "$", " ">>

\* first index at or after i whose character is outside the class
RECURSIVE SkipClass(_, _, _)
SkipClass(t, i, class) ==
    IF i <= Len(t) /\ t[i] \in class THEN SkipClass(t, i + 1, class) ELSE i

\* length of the escape sequence that starts at t[1], 0 when there is none
EscapeLen(t) ==
    LET intro == IF Len(t) >= 1 /\ t[1] = "CSI" THEN 1
                 ELSE IF Len(t) >= 2 /\ t[1] = "ESC" /\ t[2] = "[" THEN 2
                 ELSE 0
        fin   == SkipClass(t, SkipClass(t, intro + 1, ParamBytes), IntermediateBytes)
    IN  IF intro > 0 /\ fin <= Len(t) /\ t[fin] \in FinalBytes THEN fin ELSE 0

\* messages.replace(/(\x9B|\x1B\[)[0-?]*[ -\/]*[@-~]/gm, empty)
RECURSIVE StripEscapes(_)
StripEscapes(t) ==
    IF t = << >> THEN << >>
    ELSE IF EscapeLen(t) > 0 THEN StripEscapes(SubSeq(t, EscapeLen(t) + 1, Len(t)))
    ELSE <<t[1]>> \o StripEscapes(Tail(t))

\* result.replace(/uart:~\$ /gm, empty)
RECURSIVE StripPrompt(_)
StripPrompt(t) ==
    IF t = << >> THEN << >>
    ELSE IF Len(t) >= Len(PromptToken) /\ SubSeq(t, 1, Len(PromptToken)) = PromptToken
         THEN StripPrompt(SubSeq(t, Len(PromptToken) + 1, Len(t)))
    ELSE <<t[1]>> \o StripPrompt(Tail(t))

cleanMessages(messages) == StripPrompt(StripEscapes(messages))


(* ------------------------------ patterns ------------------------------- *)
\* an optional RegExp argument: filterByPattern?, stopPattern?
NoPattern == [present |-> FALSE, lit |-> << >>]
Pat(l) == [present |-> TRUE, lit |-> l]

\* the literals the model searches for; "V" abbreviates the line
\* "[DEVICE]: ..." and "Di" the line "Disconnected: ..."
PatDevice == <<"V">>
PatDisconnected == <<"D", "i">>
Patterns == {PatDevice, PatDisconnected}

\* the literals of the lines the operations wait for, the fixed words one
\* symbol each: "BI" is "Bluetooth initialized", "ID" a line of the identity
\* list, "CO" is "Connected: a1 (random)", "MT" is "MTU size: "
\* and the digits follow, "S" is "Service " and the UUID follows, "DC" is
\* "Discover complete", "DP" is "Discover pending", "RP" is "Read pending",
\* "RC" "0" "x" "0" "0" "LEN" "0" is "Read complete: err 0x00 length 0",
\* "WC" "0" "x" is the head "Write complete: err 0x" (the two digits are left
\* to WriteCompleteAt), "N" is a line "Notification: data ... length ..." and
\* "Y" is "Notify data: " and the hex text follows
PatInitialized == <<"BI">>
PatSelectedId == <<"ID">>
PatConnected(btAddress) == <<"CO">>
PatMTU == <<"MT">>
PatService == <<"S">>
PatDiscoverComplete == <<"DC">>
PatDiscoverPending == <<"DP">>
PatReadPending == <<"RP">>
PatReadEnd == <<"RC", "0", "x", "0", "0", "LEN", "0">>
PatWriteComplete == <<"WC", "0", "x">>
PatNotification == <<"N">>
PatNotifyData == <<"Y">>

\* the text of the line after the first match of the literal p: what the
\* groups (.+) and (\d+) behind the fixed words are taken from
AfterMatch(p, t) ==
    LET k == Min({i \in 1..(Len(t) - Len(p) + 1) : SubSeq(t, i, i + Len(p) - 1) = p})
        rest == SubSeq(t, k + Len(p), Len(t))
        ends == {i \in 1..Len(rest) : rest[i] = NL}
    IN  IF ends = {} THEN rest ELSE SubSeq(rest, 1, Min(ends) - 1)

(* ------------------------------ transport ------------------------------ *)
\* the byte sequences the shell prints in one run
Streams ==
    { <<"V", NL, "D", "i", NL>>,
      <<"x", NL, "V", NL, "V", NL>>,
      <<"D", "i", NL, "x", "V", NL>>,
      <<"D", "ESC", "[", "m", "i", NL>> }

\* Off with the listener looked up by index and the index not checked: an
\* absent listener removes the last one (splice(-1, 1))
OffSplice(ls, id) ==
    IF \E i \in 1..Len(ls) : ls[i] = id THEN SelectSeq(ls, LAMBDA x : x # id)
    ELSE SubSeq(ls, 1, Len(ls) - 1)

\* EventEmitter.off(event, listener): removes the listener, and nothing
\* when it is not registered
Off(ls, id) == SelectSeq(ls, LAMBDA x : x # id)

\* a promise settles once: resolve and reject of a settled promise do nothing
Pending == [state |-> "pending", value |-> << >>]
\* Settle without the settled-once rule: the last resolve or reject wins
SettleLast(p, v) == v
Settle(p, v) == IF p.state = "pending" THEN v ELSE p

VARIABLES
    stream,         \* the bytes the transport delivers in this run
    pos,            \* number of bytes delivered so far
    listeners,      \* the data listeners of serialPort, in registration order
    reg,            \* per subscription: the arguments of attachToMessages
    messageBuffer,  \* per subscription: messageBuffer of attachToMessages
    timer,          \* per wait: the setTimeout of waitForMessage
    racePromise,    \* per wait and collector: the promise the caller awaits
    col,            \* per collector: the locals of collectMessagesBetween
    calls,          \* history: per subscription, the messages its callback got
    offered,        \* history: per subscription, the messages its filter saw
    cancelled,      \* history: subscriptions whose cancel function was called
    lateCalls,      \* history: subscriptions called back after their cancel
    stopped,        \* history: per subscription, the message its stop matched
    results,        \* history: per wait and collector, the outcomes awaited
    dispatched,     \* history: listeners invoked by the latest emit, in order
    cancelCalls,    \* history: per subscription, cancel calls between emits
    parse,          \* the locals of the function that parses a span or status
    shell           \* the catalogs and handles of the NRFBTShell object

vars == <<stream, pos, listeners, reg, messageBuffer, timer, racePromise, col,
          calls, offered, cancelled, lateCalls, stopped, results, dispatched,
          cancelCalls, parse, shell>>

\* the variables of the port and its listeners
portVars == <<stream, pos, listeners, reg, messageBuffer, timer, racePromise,
              col, calls, offered, cancelled, lateCalls, stopped, results,
              dispatched, cancelCalls>>

NoReg == [used |-> FALSE, at |-> 0, filter |-> NoPattern, stop |-> NoPattern,
          cb |-> "record", target |-> 0, address |-> "none"]
NoCol == [used |-> FALSE, at |-> 0, startPattern |-> << >>, endPattern |-> << >>,
          collectorMessageBuffer |-> << >>, singleMessageBuffer |-> << >>,
          isLookingForStart |-> TRUE]

\* no parsing function has been called
NoOutcome == [kind |-> "none", value |-> << >>]
ParseStart(op, out) ==
    [op |-> op, out |-> out, lines |-> << >>, pc |-> "start", i |-> 0, j |-> 0,
     currentReadLength |-> 0, linesBuffer |-> << >>, collectedBuffer |-> << >>,
     characteristics |-> << >>, outcome |-> NoOutcome]
NoParse == ParseStart("none", << >>)

\* the addresses of the peers
Addresses == {"a1", "a2"}
\* an object without properties, and what reads as undefined
NoDevice == << >>
\* no asynchronous function is suspended at the await of a promise
NotAwaiting == [op |-> "none", sub |-> 0, address |-> "none"]
\* the fields of NRFBTShell after the constructor, and next to them the
\* asynchronous functions suspended at an await, per awaited promise.
\* History: lastCall is the latest call that updated a device, written the
\* commands written with the listeners registered at that time and the
\* listener that takes the response, ended the operations that returned or
\* threw, delivered the buffers handed to the callback of
\* monitorCharacteristic, scanStopped whether stopScanning was called, issued
\* the number of operations called, step the place of the latest one in the
\* session
NoShell ==
    [btDevices |-> [a \in Addresses |-> NoDevice],
     btServices |-> [a \in Addresses |-> {}],
     btSelectedId |-> "null", scanUnsubscribe |-> 0,
     awaiting |-> [i \in Subs \cup Cols |-> NotAwaiting],
     lastCall |-> [kind |-> "none"], written |-> << >>, ended |-> {},
     delivered |-> << >>, scanStopped |-> FALSE, issued |-> 0, step |-> 0]

\* the port after open(), nothing registered and nothing received
PortIdle ==
    /\ pos = 0
    /\ listeners = << >>
    /\ reg = [s \in Subs |-> NoReg]
    /\ messageBuffer = [s \in Subs |-> << >>]
    /\ timer = [s \in Subs |-> "none"]
    /\ racePromise = [i \in Subs \cup Cols |-> Pending]
    /\ col = [c \in Cols |-> NoCol]
    /\ calls = [s \in Subs |-> << >>]
    /\ offered = [s \in Subs |-> << >>]
    /\ cancelled = {}
    /\ lateCalls = {}
    /\ stopped = [s \in Subs |-> << >>]
    /\ results = [i \in Subs \cup Cols |-> << >>]
    /\ dispatched = << >>
    /\ cancelCalls = [s \in Subs |-> 0]

Init ==
    /\ stream \in Streams
    /\ PortIdle
    /\ parse = NoParse
    /\ shell = NoShell

(* --------------------- parsing of spans and status --------------------- *)
\* In the lines the shell prints the fixed words are one symbol each: "RC" is
\* "Read complete: err ", "LEN" is " length ", "WC" is "Write complete: err ",
\* "CHR" is "Characteristic ", "HND" is " found: handle ", "PROPS" is
\* "Properties: ", "DC" is "Discover complete"; a UUID and a property tag
\* are one symbol as well.  A buffer is a sequence of bytes.

\* the bytes of one row of a hex dump
NRF_READ_OUTPUT_LENGTH == 16

\* \d
DecChars == {"0", "1", "2", "3", "4", "5", "6", "7", "8", "9"}
\* the digits of the radix 16, in the order of their values
HexChars == <<"0", "1", "2", "3", "4", "5", "6", "7", "8", "9",
              "a", "b", "c", "d", "e", "f">>
\* [0-9a-f]
HexLower == Range(HexChars)
\* [a-zA-Z0-9 ], of the characters that occur in the lines
AlnumSpace == HexLower \cup {"x", " "}

DigitValue(ch) == (CHOOSE k \in 1..16 : HexChars[k] = ch) - 1

\* parseInt(text, radix) of a text of digits of that radix, with or without
\* a sign
RECURSIVE parseInt(_, _)
parseInt(t, radix) ==
    IF t = << >> THEN 0
    ELSE IF t[1] = "-" THEN 0 - parseInt(Tail(t), radix)
    ELSE parseInt(SubSeq(t, 1, Len(t) - 1), radix) * radix + DigitValue(t[Len(t)])

\* the characters of t from k on that are in the class
Run(t, k, class) == SubSeq(t, k, SkipClass(t, k, class) - 1)

\* Math.ceil(a / b)
Ceil(a, b) == (a + b - 1) \div b

\* Buffer.alloc(n)
Alloc(n) == [k \in 1..n |-> 0]

\* Buffer.from(text, 'hex'): the bytes of the leading pairs of hex digits
RECURSIVE FromHex(_)
FromHex(t) ==
    IF Len(t) >= 2 /\ t[1] \in HexLower /\ t[2] \in HexLower
    THEN <<DigitValue(t[1]) * 16 + DigitValue(t[2])>> \o FromHex(SubSeq(t, 3, Len(t)))
    ELSE << >>

\* rawHexString.replace(/ /gm, empty)
StripSpaces(t) == SelectSeq(t, LAMBDA ch : ch # " ")

\* a copy that makes the target longer when the source does not fit
CopyGrowing(source, target, offset) ==
    LET n == IF offset + Len(source) > Len(target) THEN offset + Len(source)
             ELSE Len(target)
    IN  [k \in 1..n |->
            IF k > offset /\ k - offset <= Len(source) THEN source[k - offset]
            ELSE IF k <= Len(target) THEN target[k] ELSE 0]

\* source.copy(target, offset): what does not fit into the target is left out
Copy(source, target, offset) ==
    [k \in 1..Len(target) |->
        IF k > offset /\ k - offset <= Len(source) THEN source[k - offset]
        ELSE target[k]]

\* first position where line matches /Read complete: err (0x\d{2}) length (\d+)/,
\* 0 when it does not match
ReadCompleteAt(line) ==
    LET hits == {k \in 1..(Len(line) - 6) :
                    /\ line[k] = "RC" /\ line[k + 1] = "0" /\ line[k + 2] = "x"
                    /\ line[k + 3] \in DecChars /\ line[k + 4] \in DecChars
                    /\ line[k + 5] = "LEN" /\ line[k + 6] \in DecChars}
    IN  IF hits = {} THEN 0 ELSE Min(hits)

\* line matches /Read complete: err (0x\d{2}) length 0/
ReadEndMatches(line) ==
    \E k \in 1..(Len(line) - 6) :
        /\ line[k] = "RC" /\ line[k + 1] = "0" /\ line[k + 2] = "x"
        /\ line[k + 3] \in DecChars /\ line[k + 4] \in DecChars
        /\ line[k + 5] = "LEN" /\ line[k + 6] = "0"

\* first position where line matches /Write complete: err (0x\d{2})/
WriteCompleteAt(line) ==
    LET hits == {k \in 1..(Len(line) - 4) :
                    /\ line[k] = "WC" /\ line[k + 1] = "0" /\ line[k + 2] = "x"
                    /\ line[k + 3] \in DecChars /\ line[k + 4] \in DecChars}
    IN  IF hits = {} THEN 0 ELSE Min(hits)

\* first position where line matches /(\d{8}): ([a-zA-Z0-9 ]+)/
ValueLineAt(line) ==
    LET hits == {k \in 1..(Len(line) - 10) :
                    /\ \A d \in 0..7 : line[k + d] \in DecChars
                    /\ line[k + 8] = ":" /\ line[k + 9] = " "
                    /\ line[k + 10] \in AlnumSpace}
    IN  IF hits = {} THEN 0 ELSE Min(hits)

\* the UUIDs of the characteristics of the peer
UUIDs == {"u1", "u2", "u3"}

\* first position where line matches CHARACTERISTIC_DEFINITION_OUTPUT_PATTERN
CharacteristicAt(line) ==
    LET hits == {k \in 1..(Len(line) - 3) :
                    /\ line[k] = "CHR" /\ line[k + 1] \in UUIDs
                    /\ line[k + 2] = "HND" /\ line[k + 3] \in HexLower}
    IN  IF hits = {} THEN 0 ELSE Min(hits)

\* the alternatives of CHARACTERISTIC_PROPERTIES_PATTERN
PropertyTags == {"[write]", "[write w/w rsp]", "[read]", "[notify]", "[indicate]"}

\* first position where line matches CHARACTERISTIC_PROPERTIES_PATTERN
PropertyAt(line) ==
    LET hits == {k \in 1..Len(line) : line[k] \in PropertyTags}
    IN  IF hits = {} THEN 0 ELSE Min(hits)

parsePropertyRawToProperty(propertyRaw) ==
    CASE propertyRaw = "[write]"         -> "WRITE"
      [] propertyRaw = "[write w/w rsp]" -> "WRITE_WITHOUT_RESPONSE"
      [] propertyRaw = "[read]"          -> "READ"
      [] propertyRaw = "[notify]"        -> "NOTIFY"
      [] propertyRaw = "[indicate]"      -> "INDICATE"
      [] OTHER                           -> "null"

(* what the shell prints *)
\* a byte as two hex digits, a number as w hex digits, a number in decimal
HexByte(b) == <<HexChars[(b \div 16) + 1], HexChars[(b % 16) + 1]>>
RECURSIVE HexText(_, _)
HexText(n, w) ==
    IF w = 0 THEN << >> ELSE HexText(n \div 16, w - 1) \o <<HexChars[(n % 16) + 1]>>
RECURSIVE DecText(_)
DecText(n) ==
    IF n < 10 THEN <<HexChars[n + 1]>>
    ELSE DecText(n \div 10) \o <<HexChars[(n % 10) + 1]>>
\* the bytes as pairs of hex digits with a space between two pairs
RECURSIVE HexPairs(_)
HexPairs(bytes) ==
    IF bytes = << >> THEN << >>
    ELSE IF Len(bytes) = 1 THEN HexByte(bytes[1])
    ELSE HexByte(bytes[1]) \o <<" ">> \o HexPairs(Tail(bytes))

\* a row of the hex dump: offset of eight hex digits, colon, the bytes
ValueLine(offset, bytes) == HexText(offset, 8) \o <<":", " ">> \o HexPairs(bytes)
\* the rows of the dump of the bytes
ValueLines(bytes) ==
    [r \in 1..Ceil(Len(bytes), NRF_READ_OUTPUT_LENGTH) |->
        LET offset == (r - 1) * NRF_READ_OUTPUT_LENGTH
            last   == IF offset + NRF_READ_OUTPUT_LENGTH < Len(bytes)
                      THEN offset + NRF_READ_OUTPUT_LENGTH ELSE Len(bytes)
        IN  ValueLine(offset, SubSeq(bytes, offset + 1, last))]

\* the status codes of the peer: success, and failures without and with the
\* digits a to f
StatusOK == <<"0", "0">>
StatusCodes == {StatusOK, <<"0", "1">>, <<"0", "e">>, <<"a", "3">>}
ReadComplete(code, n) == <<"RC", "0", "x">> \o code \o <<"LEN">> \o DecText(n)
WriteComplete(code) == <<"WC", "0", "x">> \o code

\* the lines after "Read pending" of a read that delivers the bytes in one
\* segment
ReadOutput(bytes) ==
    <<ReadComplete(StatusOK, Len(bytes))>> \o ValueLines(bytes)
        \o <<ReadComplete(StatusOK, 0)>>

\* the bytes 1, 2, 3, ... of a characteristic value of n bytes, none of them 0
Payload(n) == [k \in 1..n |-> ((k - 1) % 255) + 1]

\* the lengths of the values read: less than a row, a row and a part, and
\* one with a row at the offset a0
ReadLengths == {1, 5, 17, 20, 161}

\* ReadOutput with the hex text of row r cut to its first keep characters
TruncatedOutput(bytes, r, keep) ==
    LET out  == ReadOutput(bytes)
        line == out[r + 1]
    IN  [out EXCEPT ![r + 1] = SubSeq(line, 1, 10 + keep)]
\* how a row is cut: to nothing, in the middle of a pair, after two pairs
Cuts == {0, 4, 5}

\* a segment of five bytes, then a status line with the code, after it the
\* end of another read
FailureOutput(code) ==
    <<ReadComplete(StatusOK, 5), ValueLine(0, Payload(5)),
      ReadComplete(code, 0), ReadComplete(StatusOK, 0)>>

\* the bytes 255, 254, ... of a second segment
SecondPayload(n) == [k \in 1..n |-> 255 - ((k - 1) % 255)]
\* the lines of a read that delivers its bytes in two segments
SegmentsOutput(n, m) ==
    <<ReadComplete(StatusOK, n)>> \o ValueLines(Payload(n))
        \o <<ReadComplete(StatusOK, m)>> \o ValueLines(SecondPayload(m))
        \o <<ReadComplete(StatusOK, 0)>>
\* the lengths of the two segments
SegmentLengths == {<<5, 3>>, <<17, 5>>, <<20, 17>>}
\* a segment of five bytes whose one row has the offset and the number of
\* bytes given, then a segment of three bytes
OversizeOutput(offset, count) ==
    <<ReadComplete(StatusOK, 5), ValueLine(offset, Payload(count)),
      ReadComplete(StatusOK, 3), ValueLine(0, SecondPayload(3)),
      ReadComplete(StatusOK, 0)>>
\* offset and number of bytes of a row that does not fit its segment
Oversizes == {<<0, 8>>, <<3, 4>>, <<16, 3>>}
\* ReadOutput with the line of an event, "V" for "[DEVICE]: ...", after the
\* first lines
EventOutput(bytes, after) ==
    LET out == ReadOutput(bytes)
    IN  SubSeq(out, 1, after) \o <<PatDevice>> \o SubSeq(out, after + 1, Len(out))

ReadOutputs ==
    {ReadOutput(Payload(n)) : n \in ReadLengths}
    \cup {TruncatedOutput(Payload(20), r, keep) : r \in 1..2, keep \in Cuts}
    \cup {FailureOutput(code) : code \in StatusCodes}
    \cup {<<ReadComplete(code, 0)>> : code \in StatusCodes}
    \cup {SegmentsOutput(l[1], l[2]) : l \in SegmentLengths}
    \cup {OversizeOutput(o[1], o[2]) : o \in Oversizes}
    \cup {EventOutput(Payload(20), after) : after \in 1..2}

WriteOutputs == {<<WriteComplete(code)>> : code \in StatusCodes}

\* the lines of one characteristic: its definition, "Properties: ", one line
\* for each tag
Block(uuid, handle, tags) ==
    <<<<"CHR", uuid, "HND">> \o handle, <<"PROPS">>>>
        \o [k \in 1..Len(tags) |-> <<tags[k]>>]
Blocks ==
    { Block("u1", <<"0", "0", "0", "a">>, <<"[read]", "[notify]">>),
      Block("u2", <<"1", "0">>, <<"[write]">>),
      Block("u3", <<"b">>, << >>) }
\* number of characteristics of the service that is discovered
MaxBlocks == 2
RECURSIVE BlockLines(_)
BlockLines(bs) == IF bs = << >> THEN << >> ELSE bs[1] \o BlockLines(Tail(bs))
\* the lines after "Discover pending": the blocks of different
\* characteristics one after the other, then "Discover complete"
DiscoverOutputs ==
    {BlockLines(bs) \o <<<<"DC">>>> :
        bs \in {b \in UNION {[1..n -> Blocks] : n \in 1..MaxBlocks} :
                    \A k, l \in DOMAIN b : b[k] = b[l] => k = l}}

(* collectMessagesBetween and split, for a span whose lines come one chunk *)
(* each after the chunk of the start line                                  *)
\* the lines through the first one in ends, and the empty text after its
\* line end
SpanLines(out, ends) == SubSeq(out, 1, Min(ends)) \o << << >> >>
ReadEnds(out) == {k \in 1..Len(out) : ReadEndMatches(out[k])}
DiscoverEnds(out) == {k \in 1..Len(out) : Includes(out[k], "DC")}

Ended == parse.pc \in {"returned", "thrown", "pending"}
Return(kind, value) ==
    [parse EXCEPT !.pc = "returned", !.outcome = [kind |-> kind, value |-> value]]
Throw(kind, value) ==
    [parse EXCEPT !.pc = "thrown", !.outcome = [kind |-> kind, value |-> value]]

\* readCharacteristic up to the split of the collected span; the collector
\* stays pending when no line matches its end pattern
ReadCharacteristic ==
    /\ parse.op = "read" /\ parse.pc = "start"
    /\ parse' = IF ReadEnds(parse.out) = {} THEN [parse EXCEPT !.pc = "pending"]
                ELSE [parse EXCEPT !.lines = SpanLines(parse.out, ReadEnds(parse.out)),
                                   !.pc = "for"]
    /\ UNCHANGED <<portVars, shell>>

\* the test of the for loop and the body of the do loop up to the rows
ReadLine ==
    /\ parse.op = "read" /\ parse.pc \in {"for", "do"}
    /\ parse' =
        IF parse.i >= Len(parse.lines)
        THEN IF parse.pc = "for" THEN Return("buffer", parse.collectedBuffer)
             ELSE Throw("TypeError", << >>)
        ELSE LET line == parse.lines[parse.i + 1]
                 at   == ReadCompleteAt(line)
                 error == SubSeq(line, at + 1, at + 4)
                 currentReadLength == parseInt(Run(line, at + 6, DecChars), 10)
             IN  IF at = 0 THEN [parse EXCEPT !.i = @ + 1, !.pc = "for"]
                 ELSE IF error # <<"0", "x", "0", "0">> THEN Throw("error", error)
                 ELSE IF currentReadLength = 0
                      THEN [parse EXCEPT !.i = @ + 1, !.pc = "for",
                                         !.currentReadLength = 0]
                 ELSE [parse EXCEPT !.i = @ + 1, !.j = 0, !.pc = "rows",
                                    !.currentReadLength = currentReadLength,
                                    !.linesBuffer = Alloc(currentReadLength)]
    /\ UNCHANGED <<portVars, shell>>

linesToEat == Ceil(parse.currentReadLength, NRF_READ_OUTPUT_LENGTH)

\* one turn of the loop over the rows of a segment
ReadValueLine ==
    /\ parse.op = "read" /\ parse.pc = "rows" /\ parse.j < linesToEat
    /\ parse' =
        IF parse.i + parse.j >= Len(parse.lines) THEN Throw("TypeError", << >>)
        ELSE LET valueLine == parse.lines[parse.i + parse.j + 1]
                 at        == ValueLineAt(valueLine)
                 offset    == parseInt(SubSeq(valueLine, at, at + 7), 16)
                 buffer    == FromHex(StripSpaces(Run(valueLine, at + 10, AlnumSpace)))
             IN  IF at = 0 THEN [parse EXCEPT !.j = @ + 1]
                 ELSE [parse EXCEPT !.j = @ + 1,
                                    !.linesBuffer = Copy(buffer, @, offset)]
    /\ UNCHANGED <<portVars, shell>>

\* the end of a segment: Buffer.concat and the step over its rows
ReadConcat ==
    /\ parse.op = "read" /\ parse.pc = "rows" /\ parse.j = linesToEat
    /\ parse' = [parse EXCEPT !.collectedBuffer = @ \o parse.linesBuffer,
                              !.i = @ + linesToEat, !.pc = "do"]
    /\ UNCHANGED <<portVars, shell>>

\* writeCharacteristic once the shell has printed its lines: the wait gives
\* the first line that matches, or the timeout when none does
WriteCharacteristic ==
    /\ parse.op = "write" /\ parse.pc = "start"
    /\ LET hits == {k \in 1..Len(parse.out) : WriteCompleteAt(parse.out[k]) # 0}
           message == parse.out[Min(hits)]
           at == WriteCompleteAt(message)
           code == SubSeq(message, at + 1, at + 4)
       IN  parse' = IF hits = {} THEN Throw("timeout", << >>)
                    ELSE IF code # <<"0", "x", "0", "0">> THEN Throw("error", code)
                    ELSE Return("true", << >>)
    /\ UNCHANGED <<portVars, shell>>

\* discoverCharacteristicsForService up to the split of the collected span
DiscoverCharacteristicsForService ==
    /\ parse.op = "discover" /\ parse.pc = "start"
    /\ parse' = IF DiscoverEnds(parse.out) = {} THEN [parse EXCEPT !.pc = "pending"]
                ELSE [parse EXCEPT !.lines = SpanLines(parse.out, DiscoverEnds(parse.out)),
                                   !.pc = "for"]
    /\ UNCHANGED <<portVars, shell>>

\* the do loop over the lines of property tags that starts at propertiesLine:
\* the line it stops at and the properties switched on, or the TypeError of
\* a line past the end
RECURSIVE PropertiesLoop(_, _, _)
PropertiesLoop(outputLines, propertiesLine, properties) ==
    IF propertiesLine >= Len(outputLines)
    THEN [threw |-> TRUE, propertiesLine |-> propertiesLine, properties |-> properties]
    ELSE LET line == outputLines[propertiesLine + 1]
             at   == PropertyAt(line)
             property == parsePropertyRawToProperty(line[at])
         IN  IF at = 0
             THEN [threw |-> FALSE, propertiesLine |-> propertiesLine,
                   properties |-> properties]
             ELSE PropertiesLoop(outputLines, propertiesLine + 1,
                                 IF property # "null" THEN properties \cup {property}
                                 ELSE properties)

\* one turn of the for loop of discoverCharacteristicsForService
DiscoverLine ==
    /\ parse.op = "discover" /\ parse.pc = "for"
    /\ parse' =
        IF parse.i >= Len(parse.lines)
        THEN Return("characteristics", parse.characteristics)
        ELSE LET currentLine == parse.lines[parse.i + 1]
                 at     == CharacteristicAt(currentLine)
                 uuid   == currentLine[at + 1]
                 handle == parseInt(Run(currentLine, at + 3, HexLower), 16)
                 hasProperties ==
                    /\ parse.i + 1 < Len(parse.lines)
                    /\ Includes(parse.lines[parse.i + 2], "PROPS")
                 loop == PropertiesLoop(parse.lines, parse.i + 2, {})
                 currentCharacteristic ==
                    [uuid |-> uuid, handle |-> handle,
                     properties |-> IF hasProperties THEN loop.properties ELSE {}]
             IN  IF at = 0 THEN [parse EXCEPT !.i = @ + 1]
                 ELSE IF hasProperties /\ loop.threw THEN Throw("TypeError", << >>)
                 ELSE [parse EXCEPT
                         !.i = IF hasProperties THEN loop.propertiesLine + 1 ELSE @ + 1,
                         !.characteristics = Append(@, currentCharacteristic)]
    /\ UNCHANGED <<portVars, shell>>

\* the calls of the functions that parse what the shell printed
InitParse ==
    /\ stream = << >>
    /\ PortIdle
    /\ parse \in {ParseStart("read", out) : out \in ReadOutputs}
            \cup {ParseStart("write", out) : out \in WriteOutputs}
            \cup {ParseStart("discover", out) : out \in DiscoverOutputs}
    /\ shell = NoShell

NextParse ==
    \/ ReadCharacteristic
    \/ ReadLine
    \/ ReadValueLine
    \/ ReadConcat
    \/ WriteCharacteristic
    \/ DiscoverCharacteristicsForService
    \/ DiscoverLine

SpecParse == InitParse /\ [][NextParse]_vars


(* --------------------------- device catalog ---------------------------- *)
\* { ...a, ...b }: the properties of b over those of a
Spread(a, b) ==
    [f \in DOMAIN a \cup DOMAIN b |-> IF f \in DOMAIN b THEN b[f] ELSE a[f]]

\* updateDevice with the record replaced by the update
updateDeviceReplace(btDevices, address, device) ==
    [btDevices EXCEPT ![address] = Spread(device, "address" :> address)]

\* updateDevice(address, device): the catalog after the call
updateDevice(btDevices, address, device) ==
    LET created == IF btDevices[address] = NoDevice
                   THEN Spread(device, "address" :> address)
                   ELSE btDevices[address]
    IN  [btDevices EXCEPT ![address] = Spread(created, device)]

\* the flags of advertisedProperties that the groups C, S, D, SR, E switch on
AdvertisedFlags(matches) ==
    {flag \in {"connectable", "scannable", "directed", "scanResponse",
               "extendedAdvertising"} : parseInt(matches[flag], 10) # 0}

\* the record parseAdvertisement hands to updateDevice, from the groups of
\* the device pattern
newDevice(matches) ==
    LET always == [address |-> matches.address, addressType |-> matches.deviceType,
                   advertisedProperties |-> AdvertisedFlags(matches),
                   rssi |-> parseInt(matches.rssi, 10)]
    IN  IF matches.name # << >> THEN Spread(always, "name" :> matches.name)
        ELSE always

\* the groups of the "[DEVICE]: ..." lines of the scan: advertisements with
\* a name and scan responses with and without one
DeviceMatches ==
    [address : Addresses, deviceType : {"random"},
     rssi : {<<"-", "5", "0">>, <<"-", "7">>},
     name : {<< >>, <<"n">>, <<"m">>},
     connectable : {<<"1">>}, scannable : {<<"1">>}, directed : {<<"0">>},
     scanResponse : {<<"0">>, <<"1">>}, extendedAdvertising : {<<"0">>}]
\* the group of the "MTU size: ..." line
MTUSizes == {<<"2", "3">>, <<"2", "4", "7">>}

\* parseAdvertisement(advertisement, matches): the shell after the call
parseAdvertisement(sh, matches) ==
    [sh EXCEPT
        !.btDevices = updateDevice(@, matches.address, newDevice(matches)),
        !.lastCall = [kind |-> "parseAdvertisement", address |-> matches.address,
                      name |-> matches.name, device |-> newDevice(matches)]]

\* the end of getMTU: the shell after updateDevice(btAddress, { mtu })
setMTU(sh, btAddress, size) ==
    [sh EXCEPT
        !.btDevices = updateDevice(@, btAddress, [mtu |-> parseInt(size, 10)]),
        !.lastCall = [kind |-> "getMTU", address |-> btAddress,
                      name |-> << >>, device |-> [mtu |-> parseInt(size, 10)]]]

\* the callback of startScanning for a line that matches the device pattern
ParseAdvertisement(matches) ==
    /\ shell' = parseAdvertisement(shell, matches)
    /\ UNCHANGED <<portVars, parse>>

\* getMTU after its wait resolved with the line "MTU size: ..."
GetMTU(btAddress, size) ==
    /\ shell' = setMTU(shell, btAddress, size)
    /\ UNCHANGED <<portVars, parse>>

InitDevices ==
    /\ stream = << >>
    /\ PortIdle
    /\ parse = NoParse
    /\ shell = NoShell

NextDevices ==
    \/ \E matches \in DeviceMatches : ParseAdvertisement(matches)
    \/ \E a \in Addresses : \E size \in MTUSizes : GetMTU(a, size)

SpecDevices == InitDevices /\ [][NextDevices]_vars

(* ------------------- the state one emit works on ----------------------- *)
EmitState ==
    [listeners |-> listeners, messageBuffer |-> messageBuffer,
     racePromise |-> racePromise, col |-> col, calls |-> calls,
     offered |-> offered, cancelled |-> cancelled, lateCalls |-> lateCalls,
     stopped |-> stopped, results |-> results, dispatched |-> << >>,
     reg |-> reg, timer |-> timer, shell |-> shell, full |-> FALSE]

\* resolve or reject of the promise the caller awaits; the caller's
\* continuation runs once for every change of the promise
SettleRace(st, i, v) ==
    LET p == Settle(st.racePromise[i], v)
    IN  [st EXCEPT !.racePromise[i] = p,
                   !.results[i] = IF p = st.racePromise[i] THEN @ ELSE Append(@, v)]

\* the function attachToMessages returns
Unsubscribe(st, s) ==
    [st EXCEPT !.listeners = Off(@, s), !.cancelled = @ \cup {s}]

\* the subscription of waitForMessage: its callback cancels the subscription
\* and resolves the promise
WaitReg(p) ==
    [used |-> TRUE, at |-> pos, filter |-> Pat(p), stop |-> NoPattern,
     cb |-> "wait", target |-> 0, address |-> "none"]

\* the next subscription and the next collector to create, 0 when all the
\* subscriptions or collectors of the run are created
FreeSub(st) ==
    IF \A s \in Subs : st.reg[s].used THEN 0
    ELSE Min({s \in Subs : ~st.reg[s].used})
FreeCol(st) ==
    IF \A c \in Cols : st.col[c].used THEN 0
    ELSE Min({c \in Cols : ~st.col[c].used})

\* writeMessage(message): serialPort.write(message + NL); responder is the
\* listener the caller registered for the response, 0 when it registered none
writeMessage(st, message, responder) ==
    [st EXCEPT !.shell.written =
        Append(@, [message |-> message, registered |-> st.listeners,
                   responder |-> responder])]

\* attachToMessages(callback, filterByPattern, stopPattern) as subscription s
attachToMessages(st, s, r) ==
    [st EXCEPT !.reg[s] = r, !.listeners = Append(@, s)]

\* waitForMessage(messageOrPattern) as subscription s: the timer is started,
\* then the subscription is attached
waitForMessage(st, s, p) ==
    [st EXCEPT !.timer[s] = "pending", !.reg[s] = WaitReg(p),
               !.listeners = Append(@, s)]

\* collectMessagesBetween(startPattern, endPattern) as collector c
collectMessagesBetween(st, c, sp, ep) ==
    [st EXCEPT !.col[c] = [NoCol EXCEPT !.used = TRUE, !.at = pos,
                                        !.startPattern = sp, !.endPattern = ep],
               !.listeners = Append(@, c)]

\* the command written before the listener for its response is registered
WriteThenWait(st, s, p, message, op) ==
    LET st1 == waitForMessage(writeMessage(st, message, s), s, p)
    IN  [st1 EXCEPT !.shell.awaiting[s] = op]

\* const promise = this.waitForMessage(pattern); this.writeMessage(message);
\* await promise: the head of every command/response operation
WaitThenWrite(st, s, p, message, op) ==
    LET st1 == writeMessage(waitForMessage(st, s, p), message, s)
    IN  [st1 EXCEPT !.shell.awaiting[s] = op]

\* the groups of the line "V": the advertisement of the peer a1
Advertisement ==
    [address |-> "a1", deviceType |-> "random", rssi |-> <<"-", "5", "0">>,
     name |-> <<"n">>, connectable |-> <<"1">>, scannable |-> <<"1">>,
     directed |-> <<"0">>, scanResponse |-> <<"0">>,
     extendedAdvertising |-> <<"0">>]

\* the async callback of monitorCharacteristic up to its await: the wait
\* for "Notify data: ..." is registered and read_notify_data is written
MonitorCallback(st, s) ==
    LET w == FreeSub(st)
    IN  IF w = 0 THEN [st EXCEPT !.full = TRUE]
        ELSE WaitThenWrite(st, w, PatNotifyData, "read_notify_data",
                           [op |-> "monitorCharacteristic", sub |-> s,
                            address |-> reg[s].address])

\* callback(messageBuffer, matches), for the callbacks the callers and the
\* operations pass
Callback(st, s, msg) ==
    LET st1 == [st EXCEPT !.calls[s] = Append(@, msg),
                          !.lateCalls = IF s \in st.cancelled THEN @ \cup {s} ELSE @]
    IN  CASE reg[s].cb = "record" -> st1
          [] reg[s].cb = "other"  ->
                IF reg[reg[s].target].used THEN Unsubscribe(st1, reg[s].target)
                ELSE st1
          [] reg[s].cb = "wait"   ->
                SettleRace(Unsubscribe(st1, s), s, [state |-> "message", value |-> msg])
          [] reg[s].cb = "scan"   ->
                [st1 EXCEPT !.shell = parseAdvertisement(@, Advertisement)]
          [] reg[s].cb = "service" ->
                [st1 EXCEPT !.shell.btServices[reg[s].address] =
                                @ \cup {AfterMatch(PatService, msg)}]
          [] reg[s].cb = "monitor" -> MonitorCallback(st1, s)
          [] reg[s].cb = "disconnect" -> Unsubscribe(st1, s)

\* SubOnData with the callback called for every framed message, the filter
\* not consulted
SubOnDataNoFilter(st, s, chunk) ==
    LET buf == st.messageBuffer[s] \o chunk
    IN  IF Includes(buf, NL)
        THEN LET msg       == cleanMessages(buf)
                 stopMatch == reg[s].stop.present /\ Matches(reg[s].stop.lit, msg)
                 st0 == [st EXCEPT !.offered[s] = Append(@, msg)]
                 st1 == Callback(st0, s, msg)
                 st2 == IF stopMatch
                        THEN [st1 EXCEPT !.listeners = Off(@, s), !.stopped[s] = msg]
                        ELSE st1
             IN  [st2 EXCEPT !.messageBuffer[s] = << >>]
        ELSE [st EXCEPT !.messageBuffer[s] = buf]

\* SubOnData with the stop match found and the listener left registered
SubOnDataNoStop(st, s, chunk) ==
    LET buf == st.messageBuffer[s] \o chunk
    IN  IF Includes(buf, NL)
        THEN LET msg       == cleanMessages(buf)
                 matches   == reg[s].filter.present /\ Matches(reg[s].filter.lit, msg)
                 stopMatch == reg[s].stop.present /\ Matches(reg[s].stop.lit, msg)
                 st0 == [st EXCEPT !.offered[s] = Append(@, msg)]
                 st1 == IF ~reg[s].filter.present \/ matches
                        THEN Callback(st0, s, msg) ELSE st0
                 st2 == IF stopMatch THEN [st1 EXCEPT !.stopped[s] = msg] ELSE st1
             IN  [st2 EXCEPT !.messageBuffer[s] = << >>]
        ELSE [st EXCEPT !.messageBuffer[s] = buf]

\* onData of attachToMessages
SubOnData(st, s, chunk) ==
    LET buf == st.messageBuffer[s] \o chunk
    IN  IF Includes(buf, NL)
        THEN LET msg       == cleanMessages(buf)
                 matches   == reg[s].filter.present /\ Matches(reg[s].filter.lit, msg)
                 stopMatch == reg[s].stop.present /\ Matches(reg[s].stop.lit, msg)
                 st0 == [st EXCEPT !.offered[s] = Append(@, msg)]
                 st1 == IF ~reg[s].filter.present \/ matches
                        THEN Callback(st0, s, msg) ELSE st0
                 st2 == IF stopMatch
                        THEN [st1 EXCEPT !.listeners = Off(@, s), !.stopped[s] = msg]
                        ELSE st1
             IN  [st2 EXCEPT !.messageBuffer[s] = << >>]
        ELSE [st EXCEPT !.messageBuffer[s] = buf]

\* onData of collectMessagesBetween
ColOnData(st, c, chunk) ==
    LET k      == st.col[c]
        single == IF k.isLookingForStart THEN k.singleMessageBuffer \o chunk
                  ELSE k.singleMessageBuffer
    IN  IF k.isLookingForStart /\ Includes(single, NL) /\ Matches(k.startPattern, single)
        THEN [st EXCEPT !.col[c].singleMessageBuffer = << >>,
                        !.col[c].isLookingForStart = FALSE]
        ELSE LET buf == k.collectorMessageBuffer \o chunk
             IN  IF Matches(k.endPattern, buf)
                 THEN SettleRace(
                        [st EXCEPT !.listeners = Off(@, c),
                                   !.col[c].singleMessageBuffer = single,
                                   !.col[c].collectorMessageBuffer = cleanMessages(buf)],
                        c, [state |-> "span", value |-> cleanMessages(buf)])
                 ELSE [st EXCEPT !.col[c].singleMessageBuffer = single,
                                 !.col[c].collectorMessageBuffer = buf]

\* RunListeners as a queue: the emit ends at the first listener whose
\* callback took the message
RECURSIVE RunListenersExclusive(_, _, _, _)
RunListenersExclusive(snapshot, i, chunk, st) ==
    IF i > Len(snapshot) THEN st
    ELSE LET id  == snapshot[i]
             st0 == [st EXCEPT !.dispatched = Append(@, id)]
             st1 == IF id \in Subs THEN SubOnData(st0, id, chunk)
                    ELSE ColOnData(st0, id, chunk)
         IN  IF st1.calls # st0.calls THEN st1
             ELSE RunListenersExclusive(snapshot, i + 1, chunk, st1)

\* EventEmitter.emit: the listeners registered when the emit starts are
\* invoked in registration order, a listener removed meanwhile included
RECURSIVE RunListeners(_, _, _, _)
RunListeners(snapshot, i, chunk, st) ==
    IF i > Len(snapshot) THEN st
    ELSE LET id  == snapshot[i]
             st0 == [st EXCEPT !.dispatched = Append(@, id)]
         IN  RunListeners(snapshot, i + 1, chunk,
                          IF id \in Subs THEN SubOnData(st0, id, chunk)
                          ELSE ColOnData(st0, id, chunk))

(* ------------------------------ actions -------------------------------- *)
\* the subscriptions are numbered in the order they are created
NextFree(s) == ~reg[s].used /\ \A t \in Subs : t < s => reg[t].used

\* the callbacks and patterns attachToMessages is called with
Registrations(s) ==
    [used : {TRUE}, at : {pos}, filter : {NoPattern} \cup {Pat(p) : p \in Patterns},
     stop : {NoPattern}, cb : {"record"}, target : {0}, address : {"none"}]
    \cup [used : {TRUE}, at : {pos}, filter : {NoPattern, Pat(PatDevice)},
          stop : {Pat(PatDisconnected)}, cb : {"record"}, target : {0},
          address : {"none"}]

\* callers whose callback calls the cancel function of another subscription
CancellingRegistrations(s) ==
    [used : {TRUE}, at : {pos}, filter : {NoPattern},
     stop : {NoPattern}, cb : {"record"}, target : {0}, address : {"none"}]
    \cup [used : {TRUE}, at : {pos}, filter : {NoPattern},
          stop : {NoPattern}, cb : {"other"}, target : Callers \ {s},
          address : {"none"}]

\* the listeners registered after the first byte
Late == {s \in Subs : reg[s].used /\ reg[s].at > 0}
            \cup {c \in Cols : col[c].used /\ col[c].at > 0}
MayRegister == pos = 0 \/ Cardinality(Late) < MaxLate

\* attachToMessages(callback, filterByPattern, stopPattern)
Attach(s, r) ==
    /\ NextFree(s)
    /\ MayRegister
    /\ reg' = [reg EXCEPT ![s] = r]
    /\ listeners' = Append(listeners, s)
    /\ UNCHANGED <<parse, shell, stream, pos, messageBuffer, timer, racePromise, col, calls,
                   offered, cancelled, lateCalls, stopped, results, dispatched,
                   cancelCalls>>

\* waitForMessage(messageOrPattern, timeout): the timer is started, then the
\* subscription is attached
WaitForMessage(s, p) ==
    /\ NextFree(s)
    /\ MayRegister
    /\ timer' = [timer EXCEPT ![s] = "pending"]
    /\ reg' = [reg EXCEPT ![s] = WaitReg(p)]
    /\ listeners' = Append(listeners, s)
    /\ UNCHANGED <<parse, shell, stream, pos, messageBuffer, racePromise, col, calls, offered,
                   cancelled, lateCalls, stopped, results, dispatched, cancelCalls>>

\* notifyData.matches[1].replace(/0x/gm, empty)
RECURSIVE StripHexMarks(_)
StripHexMarks(t) ==
    IF t = << >> THEN << >>
    ELSE IF Len(t) >= 2 /\ t[1] = "0" /\ t[2] = "x"
         THEN StripHexMarks(SubSeq(t, 3, Len(t)))
    ELSE <<t[1]>> \o StripHexMarks(Tail(t))

\* the asynchronous function that awaits promise i returns or throws
Ends(st, i) ==
    [st EXCEPT !.shell.awaiting[i] = NotAwaiting,
               !.shell.ended = @ \cup {[op |-> st.shell.awaiting[i].op, promise |-> i,
                                        sub |-> st.shell.awaiting[i].sub,
                                        by |-> st.racePromise[i].state]}]

\* the code after the await of promise i, run when the promise is settled:
\* on a rejection the function throws at the await, on a message connect
\* calls getSelectedId, getSelectedId returns into connect, which attaches the
\* disconnect listener, getMTU updates the device, discoverPrimaryServices
\* calls discoverRemove, the callback of monitorCharacteristic decodes the
\* data and calls the user callback
Continuation(st, i) ==
    LET a == st.shell.awaiting[i]
        p == st.racePromise[i]
        next == FreeSub(st)
    IN  CASE a.op = "connect" /\ p.state = "message" ->
                IF next = 0 THEN [st EXCEPT !.full = TRUE]
                ELSE WaitThenWrite([st EXCEPT !.shell.awaiting[i] = NotAwaiting],
                                   next, PatSelectedId, "bt id-show",
                                   [op |-> "getSelectedId", sub |-> 0,
                                    address |-> a.address])
          [] a.op = "getSelectedId" /\ p.state = "message" ->
                IF next = 0 THEN [st EXCEPT !.full = TRUE]
                ELSE attachToMessages(
                        [Ends(st, i) EXCEPT !.shell.btSelectedId = "id"], next,
                        [used |-> TRUE, at |-> pos, filter |-> Pat(PatDisconnected),
                         stop |-> NoPattern, cb |-> "disconnect", target |-> 0,
                         address |-> a.address])
          [] a.op = "getMTU" /\ p.state = "message" ->
                [Ends(st, i) EXCEPT !.shell =
                    setMTU(@, a.address, Run(AfterMatch(PatMTU, p.value), 1, DecChars))]
          [] a.op = "discoverPrimaryServices" /\ p.state = "message" ->
                Unsubscribe(Ends(st, i), a.sub)
          [] a.op = "monitorCharacteristic" /\ p.state = "message" ->
                LET data == AfterMatch(PatNotifyData, p.value)
                IN  IF data = << >> THEN Ends(st, i)
                    ELSE [Ends(st, i) EXCEPT !.shell.delivered =
                            Append(@, [promise |-> i,
                                       data |-> FromHex(StripHexMarks(StripSpaces(data)))])]
          [] OTHER -> Ends(st, i)

\* the continuations of the promises settled by the step just taken: they
\* run before the next event of the port or of a timer
RECURSIVE Continue(_, _)
Continue(st, i) ==
    IF i > MaxSubs + 2 + MaxCols THEN st
    ELSE Continue(IF st.shell.awaiting[i].op # "none"
                        /\ st.racePromise[i].state # "pending"
                  THEN Continuation(st, i) ELSE st, i + 1)

\* the program is in state st after the step
Becomes(st) ==
    /\ listeners' = st.listeners
    /\ messageBuffer' = st.messageBuffer
    /\ racePromise' = st.racePromise
    /\ col' = st.col
    /\ calls' = st.calls
    /\ offered' = st.offered
    /\ cancelled' = st.cancelled
    /\ lateCalls' = st.lateCalls
    /\ stopped' = st.stopped
    /\ results' = st.results
    /\ reg' = st.reg
    /\ timer' = st.timer
    /\ shell' = st.shell
    /\ ~st.full

\* the setTimeout callback of waitForMessage: reject()
TimerFire(s) ==
    /\ timer[s] = "pending"
    /\ Becomes(Continue(SettleRace([EmitState EXCEPT !.timer[s] = "fired"], s,
                                   [state |-> "timeout", value |-> << >>]), 1))
    /\ UNCHANGED <<parse, stream, pos, dispatched, cancelCalls>>

\* the number of cancel calls made from outside a dispatch
RECURSIVE SumCalls(_, _)
SumCalls(f, n) == IF n = 0 THEN 0 ELSE f[n] + SumCalls(f, n - 1)

\* the caller of attachToMessages calls the function it returned
Cancel(s) ==
    /\ reg[s].used
    /\ reg[s].cb # "wait"
    /\ SumCalls(cancelCalls, MaxSubs) < MaxCancelCalls
    /\ cancelCalls' = [cancelCalls EXCEPT ![s] = @ + 1]
    /\ LET st == Unsubscribe(EmitState, s)
       IN  /\ listeners' = st.listeners
           /\ cancelled' = st.cancelled
    /\ UNCHANGED <<parse, shell, stream, pos, reg, messageBuffer, timer, racePromise, col, calls,
                   offered, lateCalls, stopped, results, dispatched>>

\* collectMessagesBetween(startPattern, endPattern)
CollectMessagesBetween(c, sp, ep) ==
    /\ ~col[c].used
    /\ \A d \in Cols : d < c => col[d].used
    /\ MayRegister
    /\ col' = [col EXCEPT ![c] = [NoCol EXCEPT !.used = TRUE, !.at = pos,
                                               !.startPattern = sp,
                                               !.endPattern = ep]]
    /\ listeners' = Append(listeners, c)
    /\ UNCHANGED <<parse, shell, stream, pos, reg, messageBuffer, timer, racePromise, calls,
                   offered, cancelled, lateCalls, stopped, results, dispatched,
                   cancelCalls>>

\* serialPort emits data with the next n bytes of the stream
Deliver(n) ==
    /\ pos + n <= Len(stream)
    /\ LET chunk == SubSeq(stream, pos + 1, pos + n)
           st    == Continue(RunListeners(listeners, 1, chunk, EmitState), 1)
       IN  /\ Becomes(st)
           /\ dispatched' = st.dispatched
    /\ pos' = pos + n
    /\ UNCHANGED <<parse, stream, cancelCalls>>

\* the runs of the listener registry and of the single-shot waits
Next ==
    \/ \E s \in Callers : \E r \in Registrations(s) : Attach(s, r)
    \/ \E s \in Callers : WaitForMessage(s, PatDevice)
    \/ \E s \in Subs : TimerFire(s)
    \/ \E n \in 1..Len(stream) : Deliver(n)

Spec == Init /\ [][Next]_vars

\* the runs of the span collectors, next to single-shot waits
\* the start and end patterns the callers collect between
CollectorPatterns == {<<PatDevice, PatDisconnected>>, <<PatDisconnected, PatDevice>>}

NextCollect ==
    \/ \E c \in Cols : \E sp \in CollectorPatterns :
            CollectMessagesBetween(c, sp[1], sp[2])
    \/ \E s \in Callers : WaitForMessage(s, PatDevice)
    \/ \E s \in Subs : TimerFire(s)
    \/ \E n \in 1..Len(stream) : Deliver(n)

SpecCollect == Init /\ [][NextCollect]_vars

\* the runs in which the cancel functions are called, by the caller between
\* two emits or by a callback during an emit; the subscriptions are attached
\* before the first byte
NextCancel ==
    \/ \E s \in Callers : \E r \in CancellingRegistrations(s) : pos = 0 /\ Attach(s, r)
    \/ \E s \in Subs : Cancel(s)
    \/ \E n \in 1..Len(stream) : Deliver(n)

SpecCancel == Init /\ [][NextCancel]_vars


(* ----------------------------- operations ------------------------------ *)
\* The public functions of NRFBTShell up to their first await; what follows
\* the await is Continuation.  init also registers a data listener that only
\* fills and empties a text of its own; it is left out.

\* the order in which a session calls the operations, as main() of
\* tests/integration-test.ts does, with getMTU after connect; a session may
\* leave operations out
Session ==
    <<"init", "startScanning", "stopScanning", "connect", "getMTU",
      "discoverPrimaryServices", "discoverCharacteristicsForService",
      "readCharacteristic", "writeCharacteristic", "monitorCharacteristic">>
Step(op) == CHOOSE k \in 1..Len(Session) : Session[k] = op

\* the operation op is called, and the program is in state st when the call
\* has reached its await or its end
Called(op, st) ==
    /\ shell.issued < MaxOps
    /\ shell.step < Step(op)
    /\ Becomes([st EXCEPT !.shell.issued = @ + 1, !.shell.step = Step(op)])
    /\ UNCHANGED <<parse, stream, pos, dispatched, cancelCalls>>

Awaits(op, sub, address) == [op |-> op, sub |-> sub, address |-> address]

\* init()
CallInit ==
    /\ FreeSub(EmitState) # 0
    /\ Called("init", WaitThenWrite(EmitState, FreeSub(EmitState), PatInitialized,
                            "bt init", Awaits("init", 0, "none")))

\* startScanning(callback): the function attachToMessages returns is dropped
CallStartScanning ==
    /\ FreeSub(EmitState) # 0
    /\ Called("startScanning", writeMessage(
                attachToMessages(EmitState, FreeSub(EmitState),
                    [used |-> TRUE, at |-> pos, filter |-> Pat(PatDevice),
                     stop |-> NoPattern, cb |-> "scan", target |-> 0,
                     address |-> "none"]),
                "bt scan on", 0))

\* stopScanning()
stopScanning(st) ==
    LET st1 == IF st.shell.scanUnsubscribe # 0
               THEN [Unsubscribe(st, st.shell.scanUnsubscribe)
                        EXCEPT !.shell.scanUnsubscribe = 0]
               ELSE st
    IN  [writeMessage(st1, "bt scan off", 0) EXCEPT !.shell.scanStopped = TRUE]

CallStopScanning ==
    /\ ~shell.scanStopped
    /\ Called("stopScanning", stopScanning(EmitState))

\* connect(btAddress): the address type is read from the device record,
\* which throws for an address without a record
CallConnect(btAddress) ==
    /\ shell.btDevices[btAddress] # NoDevice
    /\ FreeSub(EmitState) # 0
    /\ Called("connect", WaitThenWrite(EmitState, FreeSub(EmitState), PatConnected(btAddress),
                            "bt connect", Awaits("connect", 0, btAddress)))

\* getMTU(btAddress)
CallGetMTU(btAddress) ==
    /\ FreeSub(EmitState) # 0
    /\ Called("getMTU", WaitThenWrite(EmitState, FreeSub(EmitState), PatMTU,
                            "gatt att_mtu", Awaits("getMTU", 0, btAddress)))

\* discoverPrimaryServices(btAddress)
CallDiscoverPrimaryServices(btAddress) ==
    LET s   == FreeSub(EmitState)
        st1 == attachToMessages(EmitState, s,
                    [used |-> TRUE, at |-> pos, filter |-> Pat(PatService),
                     stop |-> NoPattern, cb |-> "service", target |-> 0,
                     address |-> btAddress])
    IN  /\ s # 0
        /\ FreeSub(st1) # 0
        /\ Called("discoverPrimaryServices", WaitThenWrite(st1, FreeSub(st1), PatDiscoverComplete,
                                "gatt discover-primary",
                                Awaits("discoverPrimaryServices", s, btAddress)))

\* the head of discoverCharacteristicsForService and of readCharacteristic:
\* const promise = this.collectMessagesBetween(start, end);
\* this.writeMessage(message); await promise
CollectThenWrite(st, c, sp, ep, message, op) ==
    LET st1 == writeMessage(collectMessagesBetween(st, c, sp, ep), message, c)
    IN  [st1 EXCEPT !.shell.awaiting[c] = op]

\* discoverCharacteristicsForService(btAddress, serviceUUID) up to its await
CallDiscoverCharacteristicsForService(btAddress) ==
    /\ FreeCol(EmitState) # 0
    /\ Called("discoverCharacteristicsForService", CollectThenWrite(EmitState, FreeCol(EmitState), PatDiscoverPending,
                               PatDiscoverComplete, "gatt discover-characteristic",
                               Awaits("discoverCharacteristicsForService", 0, btAddress)))

\* readCharacteristic(btAddress, characteristicUUID) up to its await
CallReadCharacteristic(btAddress) ==
    /\ FreeCol(EmitState) # 0
    /\ Called("readCharacteristic", CollectThenWrite(EmitState, FreeCol(EmitState), PatReadPending,
                               PatReadEnd, "gatt read",
                               Awaits("readCharacteristic", 0, btAddress)))

\* writeCharacteristic(btAddress, characteristicUUID, data) up to its await
CallWriteCharacteristic(btAddress) ==
    /\ FreeSub(EmitState) # 0
    /\ Called("writeCharacteristic", WaitThenWrite(EmitState, FreeSub(EmitState), PatWriteComplete,
                            "gatt write", Awaits("writeCharacteristic", 0, btAddress)))

\* monitorCharacteristic(btAddress, characteristicUUID, callback)
CallMonitorCharacteristic(btAddress) ==
    /\ FreeSub(EmitState) # 0
    /\ Called("monitorCharacteristic", writeMessage(
                attachToMessages(EmitState, FreeSub(EmitState),
                    [used |-> TRUE, at |-> pos, filter |-> Pat(PatNotification),
                     stop |-> NoPattern, cb |-> "monitor", target |-> 0,
                     address |-> btAddress]),
                "gatt subscribe", 0))

\* the byte sequences the shell prints while the operations run: the end of
\* a discovery and a service line, two notifications and the data of one,
\* an advertisement and the lines of a connect, the size of the MTU
OperationStreams ==
    { <<"DC", NL, "S", "u1", NL>>,
      <<"N", NL, "N", NL, "Y", "0", "a", NL>>,
      <<"V", NL, "CO", NL, "ID", NL>>,
      <<"MT", "2", "3", NL>> }

InitOps ==
    /\ stream \in OperationStreams
    /\ PortIdle
    /\ parse = NoParse
    /\ shell = NoShell

\* the peer the operations are called for
Peer == "a1"

NextOps ==
    \/ CallInit
    \/ CallStartScanning
    \/ CallStopScanning
    \/ CallConnect(Peer)
    \/ CallGetMTU(Peer)
    \/ CallDiscoverPrimaryServices(Peer)
    \/ CallDiscoverCharacteristicsForService(Peer)
    \/ CallReadCharacteristic(Peer)
    \/ CallWriteCharacteristic(Peer)
    \/ CallMonitorCharacteristic(Peer)
    \/ \E s \in Subs : TimerFire(s)
    \/ \E n \in 1..Len(stream) : Deliver(n)

SpecOps == InitOps /\ [][NextOps]_vars


(* ------------------------------ properties ----------------------------- *)
IsWait(s) == reg[s].used /\ reg[s].cb = "wait"
\* a subscription without filter and stop whose callback only takes the message
IsPlain(s) ==
    /\ reg[s].used /\ reg[s].cb = "record"
    /\ ~reg[s].filter.present /\ ~reg[s].stop.present
Accepts(f, m) == ~f.present \/ Matches(f.lit, m)
\* the positions of the messages of q that contain the literal p
Hits(p, q) == {i \in 1..Len(q) : Matches(p, q[i])}
NLCount(t) == Cardinality({i \in 1..Len(t) : t[i] = NL})

\* C1: a wait resolves with the first message offered to it that matches its
\* pattern, whatever number of non-matching messages came before, unless its
\* timer fired first; it ends with the timeout outcome exactly when the
\* timer fired before any matching message.
WaitResolvesWithFirstMatch ==
    \A s \in Subs : IsWait(s) =>
        LET hits == Hits(reg[s].filter.lit, offered[s])
        IN  /\ racePromise[s].state = "message" =>
                 /\ hits # {}
                 /\ racePromise[s].value = offered[s][Min(hits)]
            /\ (hits # {} /\ racePromise[s].state # "timeout") =>
                 racePromise[s] = [state |-> "message",
                                   value |-> offered[s][Min(hits)]]
            /\ racePromise[s].state = "timeout" => timer[s] = "fired"
            /\ (hits = {} /\ timer[s] = "fired") => racePromise[s].state = "timeout"
            /\ (hits = {} /\ timer[s] = "pending") => racePromise[s] = Pending

\* one wait resolved with a match that came after a non-matching message,
\* another ended with the timeout and no match
WaitBothOutcomes ==
    \E s, t \in Subs :
        /\ IsWait(s) /\ racePromise[s].state = "message" /\ Len(offered[s]) >= 2
        /\ IsWait(t) /\ racePromise[t].state = "timeout"
        /\ Hits(reg[t].filter.lit, offered[t]) = {}

\* C2: every wait and every collector hands its caller at most one outcome,
\* so never a matched message and a timeout both, and never one twice.
AtMostOneOutcome ==
    \A i \in Subs \cup Cols :
        /\ Len(results[i]) <= 1
        /\ racePromise[i].state = "pending" <=> results[i] = << >>
        /\ results[i] # << >> => results[i][1] = racePromise[i]

\* the timer of a wait fired and its callback ran as well, and a collector
\* has resolved
WaitRacedBothWays ==
    /\ \E s \in Subs : IsWait(s) /\ timer[s] = "fired" /\ calls[s] # << >>
    /\ \E c \in Cols : racePromise[c].state = "span"

\* C3: once a wait has ended with the timeout, its listener is not
\* registered on the transport and its callback has not been invoked.
TimeoutCancelsSubscription ==
    \A s \in Subs : (IsWait(s) /\ racePromise[s].state = "timeout") =>
        /\ s \notin Range(listeners)
        /\ calls[s] = << >>

\* C4: once a wait has resolved with a message, its timer is neither pending
\* nor fired.
MatchDefusesTimer ==
    \A s \in Subs : (IsWait(s) /\ racePromise[s].state = "message") =>
        timer[s] \notin {"pending", "fired"}

NoCallAfterCancel ==
    /\ lateCalls = {}
    /\ \A s \in Subs : s \in cancelled => s \notin Range(listeners)

\* C8: a call of a cancel function removes its own subscription and no other
\* listener, and a further call leaves the listeners as they are.
CancelIsIdempotent ==
    [][ \A s \in Subs : cancelCalls'[s] > cancelCalls[s] =>
          /\ listeners' = SelectSeq(listeners, LAMBDA x : x # s)
          /\ s \in cancelled => listeners' = listeners ]_vars

\* a cancel function was called twice while another subscription is registered
CancelledTwice ==
    \E s \in Subs : cancelCalls[s] >= 2 /\ listeners # << >>

\* the messages the callback of a subscription without filter gets when the
\* text arrives as one chunk
FrameOneChunk(t) == IF Includes(t, NL) THEN <<cleanMessages(t)>> ELSE << >>

\* C9: a subscription without filter that is registered before the first
\* byte has got the same messages as when all bytes delivered so far had
\* come in one chunk.
ChunkBoundaryInsensitive ==
    \A s \in Subs : (IsPlain(s) /\ reg[s].at = 0) =>
        calls[s] = FrameOneChunk(SubSeq(stream, 1, pos))

\* C10: a chunk with k >= 2 newlines makes the callback of a registered
\* subscription without filter be called k times, every message with one
\* newline, at its end.
MultiLineChunkYieldsLines ==
    [][ \A s \in Subs :
          LET chunk == SubSeq(stream, pos + 1, pos')
          IN  ( /\ pos' > pos /\ NLCount(chunk) >= 2
                /\ IsPlain(s) /\ s \in Range(listeners) )
              => /\ Len(calls'[s]) = Len(calls[s]) + NLCount(chunk)
                 /\ \A i \in (Len(calls[s]) + 1)..Len(calls'[s]) :
                      /\ NLCount(calls'[s][i]) = 1
                      /\ Last(calls'[s][i]) = NL ]_vars

(* ----------------------- span parsing claims --------------------------- *)
Gives(kind, value) == parse.outcome.kind = kind /\ parse.outcome.value = value

\* C15: a buffer whose length is not a multiple of 16, printed as a success
\* status line with its length and the rows of its hex dump, comes back from
\* the reassembly of readCharacteristic unchanged, also when it is so long
\* that the offsets of its rows contain the digits a to f.
HexDumpRoundTrip ==
    \A n \in ReadLengths :
        parse.op = "read" /\ parse.out = ReadOutput(Payload(n)) /\ Ended =>
            Gives("buffer", Payload(n))

\* the bytes with the range of row r set to zero
ZeroRow(bytes, r) ==
    [k \in 1..Len(bytes) |->
        IF Ceil(k, NRF_READ_OUTPUT_LENGTH) = r THEN 0 ELSE bytes[k]]

\* C16: a row whose hex text is cut short leaves all bytes of its range zero
\* in the result, and every other row is still written at its offset.
TruncatedRowLeavesZeros ==
    \A r \in 1..2 : \A keep \in Cuts :
        /\ parse.op = "read" /\ Ended
        /\ parse.out = TruncatedOutput(Payload(20), r, keep)
        => Gives("buffer", ZeroRow(Payload(20), r))

\* C17: a status line with a failure code in the collected span makes
\* readCharacteristic end with an error that carries the code and with no
\* buffer, also after a segment that was reassembled.
FailureStatusEndsRead ==
    \A code \in StatusCodes \ {StatusOK} :
        parse.op = "read" /\ parse.out = FailureOutput(code) /\ Ended =>
            Gives("error", <<"0", "x">> \o code)

\* C18: for every status of two hex digits other than 00, with digits a to f
\* as well, a "Write complete" or "Read complete" line with that status ends
\* writeCharacteristic or readCharacteristic with an error that carries the
\* code: not with success, not with a timeout, not pending.
EveryFailureCodeIsAnError ==
    \A code \in StatusCodes \ {StatusOK} :
        /\ parse.op = "write" /\ parse.out = <<WriteComplete(code)>> /\ Ended
           => Gives("error", <<"0", "x">> \o code)
        /\ parse.op = "read" /\ parse.out = <<ReadComplete(code, 0)>> /\ Ended
           => Gives("error", <<"0", "x">> \o code)

\* the numbers of the lines with a characteristic definition, in their order
DefinitionLines(lines) ==
    SelectSeq([k \in 1..Len(lines) |-> k], LAMBDA k : CharacteristicAt(lines[k]) # 0)
\* the properties of the tags listed under the definition in line k
RECURSIVE TagsUnder(_, _)
TagsUnder(lines, q) ==
    IF q <= Len(lines) /\ PropertyAt(lines[q]) # 0
    THEN {parsePropertyRawToProperty(lines[q][PropertyAt(lines[q])])}
            \cup TagsUnder(lines, q + 1)
    ELSE {}
Listed(lines, k) ==
    IF k < Len(lines) /\ Includes(lines[k + 1], "PROPS") THEN TagsUnder(lines, k + 2)
    ELSE {}
\* one record for each definition line
Records(lines) ==
    [n \in 1..Len(DefinitionLines(lines)) |->
        LET k  == DefinitionLines(lines)[n]
            at == CharacteristicAt(lines[k])
        IN  [uuid |-> lines[k][at + 1],
             handle |-> parseInt(Run(lines[k], at + 3, HexLower), 16),
             properties |-> Listed(lines, k)]]

\* C19: the parse of a discovery span gives one record for each
\* "Characteristic ... found: handle ..." line, with the handle read as hex
\* and the properties of the tags listed under that line, for a single
\* characteristic and for blocks that follow one another directly.
OneRecordPerCharacteristic ==
    parse.op = "discover" /\ Ended =>
        Gives("characteristics", Records(parse.out))

(* ------------------------- span collector claims ------------------------ *)
Resolved(i) == racePromise[i].state # "pending"
\* the positions of the line ends of t
LineEnds(t) == {e \in 1..Len(t) : t[e] = NL}
\* the line of t that ends at e, its line end included
LineAt(t, e) ==
    LET before == {d \in LineEnds(t) : d < e}
        from   == IF before = {} THEN 1
                  ELSE (CHOOSE d \in before : \A x \in before : x <= d) + 1
    IN  SubSeq(t, from, e)
\* the ends of the lines of t after position a that contain the literal p
LinesWith(t, p, a) == {e \in LineEnds(t) : e > a /\ Matches(p, LineAt(t, e))}
\* t holds a line with the start pattern and after it a line with the end
\* pattern
HasSpan(t, sp, ep) ==
    LinesWith(t, sp, 0) # {} /\ LinesWith(t, ep, Min(LinesWith(t, sp, 0))) # {}
\* the stripped text from just after the start line through the end line
SpanOf(t, sp, ep) ==
    LET a == Min(LinesWith(t, sp, 0))
    IN  cleanMessages(SubSeq(t, a + 1, Min(LinesWith(t, ep, a))))
\* a collector registered before the first byte
FromStart(c) == col[c].used /\ col[c].at = 0

\* C11: a collector discards everything received before its start pattern
\* matches and resolves with exactly the stripped text from just after the
\* start line through the line where the end pattern matches, inclusive.
CollectorReturnsExactSpan ==
    \A c \in Cols :
        FromStart(c) /\ Resolved(c) /\ ~col[c].isLookingForStart =>
            /\ HasSpan(stream, col[c].startPattern, col[c].endPattern)
            /\ racePromise[c].value = SpanOf(stream, col[c].startPattern, col[c].endPattern)

\* C12: once a start line and after it an end line have been delivered, the
\* collector has resolved, however the bytes were split into chunks, also
\* when the end line came in the chunk of the start line.
CollectorResolvesForEverySplit ==
    \A c \in Cols :
        /\ FromStart(c) /\ pos = Len(stream)
        /\ HasSpan(stream, col[c].startPattern, col[c].endPattern)
        => Resolved(c)

\* C13: escape sequences and the prompt token are stripped before any pattern
\* is matched: a subscription is offered stripped messages only, a collector
\* that still looks for its start has no start match in the stripped text it
\* has seen, and a resolved span is stripped.
StrippedBeforeMatching ==
    /\ \A s \in Subs : \A k \in 1..Len(offered[s]) :
            cleanMessages(offered[s][k]) = offered[s][k]
    /\ \A c \in Cols :
        /\ col[c].used /\ col[c].isLookingForStart =>
              ~(/\ Includes(col[c].singleMessageBuffer, NL)
                /\ Matches(col[c].startPattern, cleanMessages(col[c].singleMessageBuffer)))
        /\ Resolved(c) => cleanMessages(racePromise[c].value) = racePromise[c].value

\* the timers of the event loop fire and the transport hands over what it
\* has received
FairCollect ==
    /\ \A s \in Subs : WF_vars(TimerFire(s))
    /\ WF_vars(\E n \in 1..Len(stream) : Deliver(n))

SpecCollectFair == SpecCollect /\ FairCollect

\* C14: every pending wait and every pending collector resolves in the end:
\* when no completing line arrives any more it ends with an error or a
\* timeout and does not stay pending.
EveryPendingOperationEnds ==
    /\ \A s \in Subs : [](IsWait(s) => <>Resolved(s))
    /\ \A c \in Cols : [](col[c].used => <>Resolved(c))

\* C20: a collector resolves only after its start pattern has matched: a line
\* with the end pattern that comes before any start match does not complete
\* the collection, and the phase never goes back to seeking.
CollectorEndsOnlyWhenCollecting ==
    \A c \in Cols : Resolved(c) => ~col[c].isLookingForStart

(* --------------------------- framing claims ---------------------------- *)
Registered(id) == \E k \in 1..Len(listeners) : listeners[k] = id
\* the messages the latest step offered to the filter of s
NewlyOffered(s) == SubSeq(offered'[s], Len(offered[s]) + 1, Len(offered'[s]))

\* C21: the messages are framed in the same way for all listeners: whenever
\* a chunk is dispatched to two registered subscriptions, both are offered
\* the same messages, also when one of them was registered while a line was
\* received in part.
SameFramingForAll ==
    [][\A s, t \in Subs :
          Registered(s) /\ Registered(t) => NewlyOffered(s) = NewlyOffered(t)]_vars

(* ------------------------ segment and row claims ----------------------- *)
\* the status lines of what was printed, and what they declare
IsStatusLine(line) == Len(line) >= 7 /\ line[1] = "RC"
AllSuccess(out) ==
    \A k \in 1..Len(out) : IsStatusLine(out[k]) => SubSeq(out[k], 4, 5) = StatusOK
DeclaredLength(line) == parseInt(SubSeq(line, 7, Len(line)), 10)
\* the sum of the declared lengths of the first lines, up to the first
\* status line that declares 0
RECURSIVE DeclaredSum(_)
DeclaredSum(out) ==
    IF out = << >> THEN 0
    ELSE IF ~IsStatusLine(out[1]) THEN DeclaredSum(Tail(out))
    ELSE IF DeclaredLength(out[1]) = 0 THEN 0
    ELSE DeclaredLength(out[1]) + DeclaredSum(Tail(out))
\* the five bytes of a segment after a row with count bytes at the offset
Clamped(offset, count) ==
    [k \in 1..5 |-> IF k > offset /\ k - offset <= count THEN Payload(count)[k - offset]
                    ELSE 0]

\* C22: when every status line reports success, readCharacteristic returns a
\* buffer whose length is the sum of the declared lengths of the segments
\* (empty when the only declared length is 0), with the segments in the
\* order of their arrival, and a row writes only into the bytes of its own
\* segment, whatever its offset and its number of bytes.
SegmentsAddUp ==
    /\ parse.op = "read" /\ Ended /\ AllSuccess(parse.out) =>
          /\ parse.outcome.kind = "buffer"
          /\ Len(parse.outcome.value) = DeclaredSum(parse.out)
    /\ \A l \in SegmentLengths :
          parse.op = "read" /\ Ended /\ parse.out = SegmentsOutput(l[1], l[2]) =>
              Gives("buffer", Payload(l[1]) \o SecondPayload(l[2]))
    /\ \A o \in Oversizes :
          parse.op = "read" /\ Ended /\ parse.out = OversizeOutput(o[1], o[2]) =>
              Gives("buffer", Clamped(o[1], o[2]) \o SecondPayload(3))

\* a read of two segments and a read with a row longer than its segment
\* have returned
SegmentsReturned ==
    /\ parse.op = "read" /\ parse.pc = "returned"
    /\ \/ parse.out = SegmentsOutput(17, 5) /\ Len(parse.outcome.value) = 22
       \/ parse.out = OversizeOutput(0, 8) /\ Len(parse.outcome.value) = 8

\* C27: the lines of events inside the collected span do not change the
\* buffer: with an event line between the status line and the rows, or
\* between two rows, every row of the segment is still written at its
\* offset.
EventLinesLeaveRowsIntact ==
    \A after \in 1..2 :
        parse.op = "read" /\ Ended /\ parse.out = EventOutput(Payload(20), after) =>
            Gives("buffer", Payload(20))

(* ------------------------- device catalog claims ----------------------- *)
\* C28: a device record is merged field by field: after every advertisement
\* and every getMTU a field that the update does not carry keeps its value;
\* a name recorded before is kept when a later advertisement for the address
\* has an empty name, mtu is kept over later advertisements, and the records
\* of the other addresses do not change.
AbsentFieldsAreKept ==
    [][shell'.btDevices # shell.btDevices =>
        LET call == shell'.lastCall
            old  == shell.btDevices[call.address]
            new  == shell'.btDevices[call.address]
        IN  /\ \A f \in DOMAIN old \ DOMAIN call.device :
                    f \in DOMAIN new /\ new[f] = old[f]
            /\ \A f \in DOMAIN call.device : f \in DOMAIN new /\ new[f] = call.device[f]
            /\ call.kind = "parseAdvertisement" /\ call.name = << >> /\ "name" \in DOMAIN old
                  => "name" \in DOMAIN new /\ new["name"] = old["name"]
            /\ call.kind = "parseAdvertisement" /\ "mtu" \in DOMAIN old
                  => "mtu" \in DOMAIN new /\ new["mtu"] = old["mtu"]
            /\ \A a \in Addresses \ {call.address} :
                    shell'.btDevices[a] = shell.btDevices[a]]_vars

\* a record with a name and an mtu right after an advertisement without name
NameAndMTUKept ==
    /\ shell.lastCall.kind = "parseAdvertisement" /\ shell.lastCall.name = << >>
    /\ LET device == shell.btDevices[shell.lastCall.address]
       IN  /\ "name" \in DOMAIN device /\ "mtu" \in DOMAIN device
           /\ device["name"] = <<"n">> /\ device["mtu"] = 247
           /\ device["rssi"] = 0 - 7

(* --------------------------- operation claims ------------------------- *)
\* the calls of op that have returned or thrown
EndedCalls(op) == {e \in shell.ended : e.op = op}

\* C23: no registration outlives the operation that created it: once
\* discoverPrimaryServices has ended, by the line "Discover complete" or by
\* its wait timing out, its service-line subscription is not registered,
\* and no later step changes the service catalog.
DiscoveryLeavesNoSubscription ==
    [][\A e \in EndedCalls("discoverPrimaryServices")' :
            /\ ~Registered(e.sub)'
            /\ e \in shell.ended => shell'.btServices = shell.btServices]_vars

\* the commands of the command/response operations
Commands ==
    {"bt init", "bt id-show", "bt connect", "gatt att_mtu", "gatt discover-primary",
     "gatt discover-characteristic", "gatt read", "gatt write", "read_notify_data"}

\* C24: in every command/response operation the listener or collector for
\* the response is registered on the port when the command is written, and
\* every chunk the port emits after the write is handed to that listener
\* as long as it is registered; a wait that is handed a message with its
\* pattern does not stay pending.
RegisteredBeforeWrite ==
    [][ /\ \A k \in 1..Len(shell'.written) :
            LET w == shell'.written[k]
            IN  w.message \in Commands =>
                    w.responder # 0 /\ w.responder \in Range(w.registered)
        /\ pos' > pos =>
                \A k \in 1..Len(shell.written) :
                    LET w == shell.written[k]
                    IN  (w.responder # 0 /\ Registered(w.responder))
                            => w.responder \in Range(dispatched')
        /\ \A s \in Subs :
                (/\ reg[s].cb = "wait" /\ Registered(s)
                 /\ \E k \in 1..Len(NewlyOffered(s)) :
                        Matches(reg[s].filter.lit, NewlyOffered(s)[k]))
                => racePromise'[s].state # "pending"]_vars

\* connect has written "bt connect" and then "bt id-show", and both waits
\* were resolved by lines that arrived after the writes
ResponsesSeenAfterWrite ==
    /\ \E e \in EndedCalls("getSelectedId") :
            /\ e.by = "message"
            /\ \E k \in 1..Len(shell.written) :
                    /\ shell.written[k].message = "bt id-show"
                    /\ shell.written[k].responder = e.promise
    /\ \E k \in 1..Len(shell.written) :
            /\ shell.written[k].message = "bt connect"
            /\ racePromise[shell.written[k].responder].state = "message"

\* the follow-up waits of monitorCharacteristic that are pending
PendingFollowUps ==
    {s \in Subs : /\ shell.awaiting[s].op = "monitorCharacteristic"
                  /\ racePromise[s].state = "pending"}

\* C25: when a second notification arrives before the data of the first,
\* the two invocations of the callback of monitorCharacteristic do not share
\* a response: the stream has one "Notify data: ..." line, so no step
\* resolves more than one pending follow-up wait and no step hands more
\* than one buffer to the user callback.
OneWaitPerNotifyData ==
    [][/\ Cardinality({s \in PendingFollowUps : racePromise'[s].state = "message"}) <= 1
       /\ Len(shell'.delivered) <= Len(shell.delivered) + 1]_vars

\* the subscriptions startScanning created
ScanSubscriptions == {s \in Subs : reg[s].used /\ reg[s].cb = "scan"}

\* C26: after stopScanning() the scan subscription of startScanning is not
\* registered: from the call on no step invokes the device callback, and
\* no advertisement updates the device catalog.
StopScanningEndsTheScan ==
    [][shell'.scanStopped =>
        /\ \A s \in ScanSubscriptions : ~Registered(s)'
        /\ shell.scanStopped =>
                /\ \A s \in ScanSubscriptions : calls'[s] = calls[s]
                /\ shell'.btDevices # shell.btDevices
                        => shell'.lastCall.kind # "parseAdvertisement"]_vars

====
